---- MODULE Spec2Model ----
(***************************************************************************)
(* A model of chirpy's TTS subsystem (src/tts_service.py): the audio cache *)
(* of OpenAITTSProvider, the two providers' speak_text, and the            *)
(* EnhancedTTSService coordinator that owns the provider registry; of the  *)
(* CircuitBreaker of src/error_handling.py; and of the read tracking of    *)
(* DatabaseManager (src/db_utils.py).                                      *)
(*                                                                         *)
(* Units: time is counted in whole days, sizes in whole MB.  The cache     *)
(* directory is a function from file name to [mtime, size, audio].         *)
(***************************************************************************)
EXTENDS Integers, Sequences, FiniteSets, TLC

VARIABLES
    config,            \* the ChirpyConfig fields the subsystem reads
    platform,          \* sys.platform of the host
    client,            \* OpenAITTSProvider.client is not None
    pyttsx3_available, \* SystemTTSProvider.pyttsx3_available
    providers,         \* EnhancedTTSService.providers: quality -> provider
    current_quality,   \* EnhancedTTSService.current_quality
    current_provider,  \* EnhancedTTSService.current_provider
    cache,             \* the files of cache_dir: name -> [mtime, size, audio]
    now,               \* time.time(), in days
    op,                \* the last public operation and its arguments
    ret,               \* what it returned
    raised,            \* whether it raised instead
    trace,             \* the collaborator calls it made, in order
    breaker,           \* a CircuitBreaker object
    db,                \* the tables articles and read_articles
    instances          \* provider instances working on one cache_dir

vars == <<config, platform, client, pyttsx3_available, providers,
          current_quality, current_provider, cache, now, op, ret, raised,
          trace, breaker, db, instances>>

\* The components a TTS operation does not touch
others == <<breaker, db, instances>>

\* Their values while they are not exercised
NoBreaker == "None"
NoDb == "None"
NoInstances == <<>>

-----------------------------------------------------------------------------
(* Bounds of the model *)

MaxInitFiles == 1       \* files in cache_dir when the process starts
MaxPayloadMb == 1       \* size of a synthesized payload
CacheMaxSizeMb == 2     \* config.audio_cache_max_size_mb
ShortMaxAgeDays == 7    \* a configured audio_cache_max_age_days other than the default
MaxClock == 2           \* days that pass while the cache methods are exercised

(* Program constants *)

HardMaxAgeDays == 30        \* the lookup's own expiry
DefaultMaxAgeDays == 30     \* audio_cache_max_age_days
CleanupThresholdPct == 80   \* audio_cache_cleanup_threshold, in percent
CostPerMillionChars == 15   \* USD per 1M characters

-----------------------------------------------------------------------------
(* Enumerations *)

BASIC == "basic"
STANDARD == "standard"
HD == "hd"
TTSQuality == {BASIC, STANDARD, HD}

ALLOY == "alloy"

SYSTEM == "system"      \* the SystemTTSProvider instance
OPENAI == "openai"      \* the OpenAITTSProvider instance

NoVoice == ""           \* voice=None (or any falsy voice)
RAISE == "raise"

Platforms == {"darwin", "linux", "win32", "sunos5"}

\* Hosts the process runs on: the platform, and whether pyttsx3 can be imported
Hosts ==
    {[platform |-> "linux", pyttsx3 |-> TRUE],
     [platform |-> "darwin", pyttsx3 |-> FALSE],
     [platform |-> "sunos5", pyttsx3 |-> TRUE]}

Texts == {"", "  ", "hi"}
VoiceArgs == {NoVoice, ALLOY}

Whitespace == {" "}

\* not text.strip()
IsBlank(text) == \A i \in 1..Len(text) : SubSeq(text, i, i) \in Whitespace

Ev(who, what, arg) == [who |-> who, what |-> what, arg |-> arg]

-----------------------------------------------------------------------------
(* The audio cache *)

Ext == ".mp3"

EndsWith(s, suffix) ==
    /\ Len(s) >= Len(suffix)
    /\ SubSeq(s, Len(s) - Len(suffix) + 1, Len(s)) = suffix

\* cache_dir.glob("*.mp3")
Glob(c) == {f \in DOMAIN c : EndsWith(f, Ext)}

Remove(c, f) == [g \in DOMAIN c \ {f} |-> c[g]]

Put(c, f, e) == [g \in DOMAIN c \cup {f} |-> IF g = f THEN e ELSE c[g]]

\* f"{speed}" of the float speed, kept as its text
SpeedStr(speed) == speed

GetCacheKey(text, voice, model, speed) ==
    text \o "|" \o voice \o "|" \o model \o "|" \o SpeedStr(speed)

CacheFile(key) == key \o Ext

\* A lookup that never finds the file
GetCachedAudioNeverHits(c, key, t, stuck) == [file |-> "", cache |-> c]

\* _get_cached_audio: [file, cache]; file = "" stands for None.
\* stuck: the files whose unlink raises.
GetCachedAudio(c, key, t, stuck) ==
    LET f == CacheFile(key) IN
    IF f \in DOMAIN c
    THEN IF t - c[f].mtime < HardMaxAgeDays
         THEN [file |-> f, cache |-> c]
         ELSE [file |-> "", cache |-> IF f \in stuck THEN c ELSE Remove(c, f)]
    ELSE [file |-> "", cache |-> c]

RECURSIVE SumSize(_, _)
SumSize(c, files) ==
    IF files = {} THEN 0
    ELSE LET f == CHOOSE g \in files : TRUE
         IN c[f].size + SumSize(c, files \ {f})

\* _get_cache_size_mb
GetCacheSizeMb(c) == SumSize(c, Glob(c))

\* _cleanup_by_size, as the set of directories it can leave: files with equal
\* mtime are visited in glob order, which the file system decides.
RECURSIVE CleanupFrom(_, _, _, _, _)
CleanupFrom(c, left, current_size, target_size_mb, stuck) ==
    IF left = {} \/ current_size <= target_size_mb THEN {c}
    ELSE LET oldest == {f \in left : \A g \in left : c[f].mtime <= c[g].mtime}
         IN UNION {
              IF f \in stuck
              THEN CleanupFrom(c, left \ {f}, current_size, target_size_mb, stuck)
              ELSE CleanupFrom(Remove(c, f), left \ {f},
                               current_size - c[f].size, target_size_mb, stuck)
              : f \in oldest }

\* An eviction that visits the newest files first
RECURSIVE CleanupNewestFrom(_, _, _, _, _)
CleanupNewestFrom(c, left, current_size, target_size_mb, stuck) ==
    IF left = {} \/ current_size <= target_size_mb THEN {c}
    ELSE LET newest == {f \in left : \A g \in left : c[f].mtime >= c[g].mtime}
         IN UNION {
              IF f \in stuck
              THEN CleanupNewestFrom(c, left \ {f}, current_size, target_size_mb, stuck)
              ELSE CleanupNewestFrom(Remove(c, f), left \ {f},
                                     current_size - c[f].size, target_size_mb, stuck)
              : f \in newest }

CleanupBySizeNewestFirst(c, target_size_mb, stuck) ==
    CleanupNewestFrom(c, Glob(c), SumSize(c, Glob(c)), target_size_mb, stuck)

CleanupBySize(c, target_size_mb, stuck) ==
    CleanupFrom(c, Glob(c), SumSize(c, Glob(c)), target_size_mb, stuck)

\* A size check that evicts down to the threshold size (in whole MB)
CheckCacheSizeLimitsToThreshold(c, cfg, stuck) ==
    IF GetCacheSizeMb(c) * 100 > cfg.audio_cache_max_size_mb * cfg.audio_cache_cleanup_threshold
    THEN CleanupBySize(c, (cfg.audio_cache_max_size_mb
                             * cfg.audio_cache_cleanup_threshold) \div 100, stuck)
    ELSE {c}

\* _check_cache_size_limits
CheckCacheSizeLimits(c, cfg, stuck) ==
    IF GetCacheSizeMb(c) * 100 > cfg.audio_cache_max_size_mb * cfg.audio_cache_cleanup_threshold
    THEN CleanupBySize(c, cfg.audio_cache_max_size_mb, stuck)
    ELSE {c}

\* A save that does not run the size check after writing
SaveToCacheNoSizeCheck(c, key, audio_data, t, cfg, write, stuck) ==
    LET f == CacheFile(key) IN
    CASE write = "open_failed" -> {[raised |-> TRUE, cache |-> c]}
      [] write = "write_failed" ->
            {[raised |-> TRUE,
              cache |-> Put(c, f, [mtime |-> t, size |-> 0,
                                   audio |-> SubSeq(audio_data.audio, 1, 0)])]}
      [] OTHER ->
            {[raised |-> FALSE,
              cache |-> Put(c, f, [mtime |-> t, size |-> audio_data.size,
                                   audio |-> audio_data.audio])]}

\* A save that leaves a file that is already there as it is
SaveToCacheKeepsOld(c, key, audio_data, t, cfg, write, stuck) ==
    LET f == CacheFile(key) IN
    CASE write = "open_failed" -> {[raised |-> TRUE, cache |-> c]}
      [] write = "write_failed" ->
            {[raised |-> TRUE,
              cache |-> Put(c, f, [mtime |-> t, size |-> 0,
                                   audio |-> SubSeq(audio_data.audio, 1, 0)])]}
      [] OTHER ->
            {[raised |-> FALSE, cache |-> c2] :
                c2 \in CheckCacheSizeLimits(
                         IF f \in DOMAIN c THEN c
                         ELSE Put(c, f, [mtime |-> t, size |-> audio_data.size,
                                         audio |-> audio_data.audio]),
                         cfg, stuck)}

\* _save_to_cache: the set of [raised, cache] it can end in.
\* write: "ok", "open_failed" (nothing written) or "write_failed" (the file is
\* left truncated and the exception leaves _save_to_cache).
SaveToCache(c, key, audio_data, t, cfg, write, stuck) ==
    LET f == CacheFile(key) IN
    CASE write = "open_failed" -> {[raised |-> TRUE, cache |-> c]}
      [] write = "write_failed" ->
            {[raised |-> TRUE,
              cache |-> Put(c, f, [mtime |-> t, size |-> 0,
                                   audio |-> SubSeq(audio_data.audio, 1, 0)])]}
      [] OTHER ->
            {[raised |-> FALSE, cache |-> c2] :
                c2 \in CheckCacheSizeLimits(
                         Put(c, f, [mtime |-> t, size |-> audio_data.size,
                                    audio |-> audio_data.audio]),
                         cfg, stuck)}

\* A sweep over every file of the directory, cache file or not
CleanupExpiredAnyFile(c, t, cfg, stuck) ==
    LET gone == {f \in DOMAIN c : /\ t - c[f].mtime > cfg.audio_cache_max_age_days
                                  /\ f \notin stuck}
    IN [f \in DOMAIN c \ gone |-> c[f]]

\* A sweep that stops after the first expired file it removed
CleanupExpiredOneFile(c, t, cfg, stuck) ==
    LET expired == {f \in Glob(c) : /\ t - c[f].mtime > cfg.audio_cache_max_age_days
                                    /\ f \notin stuck}
        gone == IF expired = {} THEN {} ELSE {CHOOSE f \in expired : TRUE}
    IN [f \in DOMAIN c \ gone |-> c[f]]

\* _cleanup_expired_cache
CleanupExpiredCache(c, t, cfg, stuck) ==
    LET gone == {f \in Glob(c) : /\ t - c[f].mtime > cfg.audio_cache_max_age_days
                                 /\ f \notin stuck}
    IN [f \in DOMAIN c \ gone |-> c[f]]

ClearCacheCountsAttempts(c, stuck) ==
    LET gone == Glob(c) \ stuck
    IN [count |-> Cardinality(Glob(c)),
        cache |-> [f \in DOMAIN c \ gone |-> c[f]]]

\* OpenAITTSProvider.clear_cache: [count, cache]
ClearCache(c, stuck) ==
    LET gone == Glob(c) \ stuck
    IN [count |-> Cardinality(gone), cache |-> [f \in DOMAIN c \ gone |-> c[f]]]

\* OpenAITTSProvider.get_cache_stats (ages in days)
RECURSIVE MinMtime(_, _, _)
MinMtime(c, files, acc) ==
    IF files = {} THEN acc
    ELSE LET f == CHOOSE g \in files : TRUE
         IN MinMtime(c, files \ {f}, IF c[f].mtime < acc THEN c[f].mtime ELSE acc)

GetCacheStatsFailsOnVanished(c, t, vanished) ==
    LET files == Glob(c)
        seen == IF vanished = {} THEN files ELSE {}
    IN [ret |-> IF seen = {}
                THEN [total_files |-> 0, total_size_mb |-> 0,
                      oldest_file_age_days |-> 0]
                ELSE [total_files |-> Cardinality(files),
                      total_size_mb |-> SumSize(c, seen),
                      oldest_file_age_days |-> t - MinMtime(c, seen, t)],
        cache |-> [f \in DOMAIN c \ vanished |-> c[f]]]

\* get_cache_stats while another actor deletes the files in vanished between
\* the listing and their stat: [ret, cache]; cache is the directory afterwards
GetCacheStatsDuring(c, t, vanished) ==
    LET files == Glob(c)
        seen == files \ vanished
    IN [ret |-> IF files = {}
                THEN [total_files |-> 0, total_size_mb |-> 0,
                      oldest_file_age_days |-> 0]
                ELSE [total_files |-> Cardinality(files),
                      total_size_mb |-> SumSize(c, seen),
                      oldest_file_age_days |-> t - MinMtime(c, seen, t)],
        cache |-> [f \in DOMAIN c \ vanished |-> c[f]]]

GetCacheStats(c, t) == GetCacheStatsDuring(c, t, {}).ret

-----------------------------------------------------------------------------
(* What the collaborators do during one call.  env is a record:            *)
(*   api_ok  whether the remote API call returns (it raises otherwise)     *)
(*   size    the size in MB of the audio it returns                        *)
(*   working the player commands that succeed on the host right now        *)
(*   sys     whether the local engine / the say command succeeds           *)
(*   sys2    the same for a second call in the same operation              *)
(*   write   how writing the cache file ends                               *)
(*   stuck   the cache files whose unlink raises OSError (exercised by the  *)
(*           cache operations; empty during speak_text)                    *)

LinuxPlayers == <<"paplay", "aplay", "mpg123", "ffplay">>

PLAYER == "player"      \* the host's audio players

\* subprocess.run([player, file], check=True) returns: the command works on
\* this host and the file is there to be played
Runs(player, audio_file, c, working) == player \in working /\ audio_file \in DOMAIN c

\* _play_audio_file, lines 385-394: the players tried in turn
RECURSIVE TryPlayers(_, _, _, _)
TryPlayers(i, audio_file, c, working) ==
    IF i > Len(LinuxPlayers)
    THEN [raised |-> TRUE, trace |-> <<>>]
    ELSE LET here == Ev(PLAYER, LinuxPlayers[i], audio_file) IN
         IF Runs(LinuxPlayers[i], audio_file, c, working)
         THEN [raised |-> FALSE, trace |-> <<here>>]
         ELSE LET rest == TryPlayers(i + 1, audio_file, c, working)
              IN [raised |-> rest.raised, trace |-> <<here>> \o rest.trace]

\* _play_audio_file, lines 381-400: [raised, trace]
PlayOnPlatform(audio_file, c, plat, working) ==
    CASE plat = "darwin" ->
            [raised |-> ~Runs("afplay", audio_file, c, working),
             trace |-> <<Ev(PLAYER, "afplay", audio_file)>>]
      [] plat = "linux" -> TryPlayers(1, audio_file, c, working)
      [] plat = "win32" ->
            [raised |-> ~Runs("winsound", audio_file, c, working),
             trace |-> <<Ev(PLAYER, "winsound", audio_file)>>]
      [] OTHER -> [raised |-> TRUE, trace |-> <<>>]

\* _play_audio_file: a failure is logged and raised again
PlayAudioFile(audio_file, c, plat, working) ==
    LET r == PlayOnPlatform(audio_file, c, plat, working)
    IN IF r.raised
       THEN [raised |-> TRUE,
             trace |-> r.trace \o <<Ev(OPENAI, "play_error", audio_file)>>]
       ELSE r

-----------------------------------------------------------------------------
(* OpenAITTSProvider *)

\* The result of a call: what it returned, or that it raised; the cache
\* directory it leaves; the collaborator calls it made.
Returned(value, c, tr) == [raised |-> FALSE, ret |-> value, cache |-> c, trace |-> tr]
Raised(c, tr) == [raised |-> TRUE, ret |-> FALSE, cache |-> c, trace |-> tr]

\* is_available
OpenAIIsAvailable(cl) == cl

\* get_cost_estimate, in millionths of a USD
OpenAICostEstimate(text) == Len(text) * CostPerMillionChars

\* voice or config.openai_tts_voice or ALLOY
VoiceName(voice, cfg) ==
    IF voice # NoVoice THEN voice
    ELSE IF cfg.openai_tts_voice # NoVoice THEN cfg.openai_tts_voice
    ELSE ALLOY

\* "tts-1-hd" if config.tts_quality == "hd" else "tts-1"
ModelName(cfg) == IF cfg.tts_quality = "hd" THEN "tts-1-hd" ELSE "tts-1"

\* config.tts_speed_multiplier or 1.0
Speed(cfg) ==
    IF cfg.tts_speed_multiplier = "0.0" THEN "1.0" ELSE cfg.tts_speed_multiplier

\* config.audio_format or "mp3"
AudioFormatOf(cfg) == IF cfg.audio_format = "" THEN "mp3" ELSE cfg.audio_format

\* client.audio.speech.create(...).content
ApiResponse(model, voice_name, text, audio_format, speed, size) ==
    [audio |-> <<model, voice_name, text, audio_format, speed>>, size |-> size]

\* speak_text, lines 345-348: the cached file is played
OpenAIPlayCached(cached_file, c, plat, env) ==
    LET play == PlayAudioFile(cached_file, c, plat, env.working)
    IN IF play.raised THEN Raised(c, play.trace) ELSE Returned(TRUE, c, play.trace)

\* The synthesized audio played before it is stored
OpenAISynthesizePlayFirst(text, voice_name, model, speed, cache_key, cfg, c, t, plat, env) ==
    LET api == Ev(OPENAI, "api", model) IN
    IF ~env.api_ok
    THEN {Raised(c, <<api, Ev(OPENAI, "api_error", model)>>)}
    ELSE LET content == ApiResponse(model, voice_name, text,
                                    AudioFormatOf(cfg), speed, env.size)
             store == Ev(OPENAI, "store", CacheFile(cache_key))
             play == PlayAudioFile(CacheFile(cache_key),
                                   Put(c, CacheFile(cache_key),
                                       [mtime |-> t, size |-> content.size,
                                        audio |-> content.audio]),
                                   plat, env.working)
         IN IF play.raised
            THEN {Raised(c, <<api>> \o play.trace)}
            ELSE { IF s.raised
                   THEN Raised(s.cache, <<api>> \o play.trace \o <<store>>)
                   ELSE Returned(TRUE, s.cache, <<api>> \o play.trace \o <<store>>)
                   : s \in SaveToCache(c, cache_key, content, t, cfg, env.write,
                                       env.stuck) }

\* A failed API call tried a second time
OpenAISynthesizeRetries(text, voice_name, model, speed, cache_key, cfg, c, t, plat, env) ==
    LET api == Ev(OPENAI, "api", model) IN
    IF ~env.api_ok
    THEN {Raised(c, <<api, api, Ev(OPENAI, "api_error", model)>>)}
    ELSE LET content == ApiResponse(model, voice_name, text,
                                    AudioFormatOf(cfg), speed, env.size)
             store == Ev(OPENAI, "store", CacheFile(cache_key))
         IN { IF s.raised
              THEN Raised(s.cache, <<api, store>>)
              ELSE LET play == PlayAudioFile(CacheFile(cache_key), s.cache, plat,
                                             env.working)
                   IN IF play.raised
                      THEN Raised(s.cache, <<api, store>> \o play.trace)
                      ELSE Returned(TRUE, s.cache, <<api, store>> \o play.trace)
              : s \in SaveToCache(c, cache_key, content, t, cfg, env.write, env.stuck) }

\* speak_text, lines 350-369: the API call, the store, the play
OpenAISynthesize(text, voice_name, model, speed, cache_key, cfg, c, t, plat, env) ==
    LET api == Ev(OPENAI, "api", model) IN
    IF ~env.api_ok
    THEN {Raised(c, <<api, Ev(OPENAI, "api_error", model)>>)}
    ELSE LET content == ApiResponse(model, voice_name, text,
                                    AudioFormatOf(cfg), speed, env.size)
             store == Ev(OPENAI, "store", CacheFile(cache_key))
         IN { IF s.raised
              THEN Raised(s.cache, <<api, store>>)
              ELSE LET play == PlayAudioFile(CacheFile(cache_key), s.cache, plat,
                                             env.working)
                   IN IF play.raised
                      THEN Raised(s.cache, <<api, store>> \o play.trace)
                      ELSE Returned(TRUE, s.cache, <<api, store>> \o play.trace)
              : s \in SaveToCache(c, cache_key, content, t, cfg, env.write, env.stuck) }

\* speak_text, lines 331-369: the body of the try
OpenAISpeakTextBody(text, voice, cfg, c, t, plat, env) ==
    LET voice_name == VoiceName(voice, cfg)
        model == ModelName(cfg)
        speed == Speed(cfg)
        cache_key == GetCacheKey(text, voice_name, model, speed)
        cached == GetCachedAudio(c, cache_key, t, env.stuck)
        check == Ev(OPENAI, "cache_check", CacheFile(cache_key))
    IN { [o EXCEPT !.trace = <<check>> \o o.trace] :
            o \in IF cached.file # ""
                  THEN {OpenAIPlayCached(cached.file, cached.cache, plat, env)}
                  ELSE OpenAISynthesize(text, voice_name, model, speed, cache_key,
                                        cfg, cached.cache, t, plat, env) }

\* speak_text without its except clause
OpenAINoExcept(o) == o

\* speak_text, lines 371-373: except Exception: return False
OpenAIExcept(o) == IF o.raised THEN Returned(FALSE, o.cache, o.trace) ELSE o

\* speak_text: the set of results it can end in
OpenAISpeakTextOutcomes(text, voice, cfg, cl, c, t, plat, env) ==
    IF ~OpenAIIsAvailable(cl) THEN {Returned(FALSE, c, <<>>)}
    ELSE IF IsBlank(text) THEN {Returned(TRUE, c, <<>>)}
    ELSE {OpenAIExcept(o) : o \in OpenAISpeakTextBody(text, voice, cfg, c, t, plat, env)}

-----------------------------------------------------------------------------
(* SystemTTSProvider *)

SystemIsAvailable == TRUE

SystemCostEstimate(text) == 0

\* speak_text, lines 445-459: the body of the try
SystemSpeakTextBody(text, pyttsx3, c, env) ==
    LET say == IF pyttsx3 THEN Ev(SYSTEM, "engine.say", text)
               ELSE Ev(SYSTEM, "say", text)
    IN IF env.sys THEN Returned(TRUE, c, <<say>>) ELSE Raised(c, <<say>>)

\* speak_text, lines 461-463: except Exception: return False
SystemExcept(o) == IF o.raised THEN Returned(FALSE, o.cache, o.trace) ELSE o

\* speak_text
SystemSpeakTextResult(text, voice, cfg, pyttsx3, c, env) ==
    IF IsBlank(text) THEN Returned(TRUE, c, <<>>)
    ELSE SystemExcept(SystemSpeakTextBody(text, pyttsx3, c, env))

-----------------------------------------------------------------------------
(* EnhancedTTSService *)

\* A registry that holds the OpenAI provider whether or not it is available
BuildProvidersAlways(cl) ==
    Put(Put([q \in {BASIC} |-> SYSTEM], STANDARD, OPENAI), HD, OPENAI)

\* __init__, lines 474-484: the registry
BuildProviders(cl) ==
    LET basic == [q \in {BASIC} |-> SYSTEM]
    IN IF OpenAIIsAvailable(cl)
       THEN Put(Put(basic, STANDARD, OPENAI), HD, OPENAI)
       ELSE basic

\* config.tts_quality or "basic"
QualityStr(cfg) == IF cfg.tts_quality = "" THEN BASIC ELSE cfg.tts_quality

FallbackOrder == <<HD, STANDARD, BASIC>>

\* _get_best_available_provider; RAISE stands for the RuntimeError
RECURSIVE FirstAvailable(_, _)
FirstAvailable(provs, i) ==
    IF i > Len(FallbackOrder) THEN RAISE
    ELSE IF FallbackOrder[i] \in DOMAIN provs THEN provs[FallbackOrder[i]]
    ELSE FirstAvailable(provs, i + 1)

\* The fallback order walked without looking at the configured quality first
GetBestIgnoringQuality(provs, quality) == FirstAvailable(provs, 1)

GetBestAvailableProvider(provs, quality) ==
    IF quality \in DOMAIN provs THEN provs[quality]
    ELSE FirstAvailable(provs, 1)

BoolStr(b) == IF b THEN "True" ELSE "False"

\* provider.speak_text(text, voice) on provider p, with the call and what it
\* answered recorded
ProviderSpeakText(p, text, voice, c, env) ==
    LET call == Ev(p, "speak_text", text)
        Answer(o) == [o EXCEPT !.trace =
                        <<call>> \o o.trace
                        \o <<Ev(p, "answer", IF o.raised THEN RAISE ELSE BoolStr(o.ret))>>]
    IN IF p = OPENAI
       THEN {Answer(o) : o \in OpenAISpeakTextOutcomes(text, voice, config, client, c,
                                                      now, platform, env)}
       ELSE {Answer(SystemSpeakTextResult(text, voice, config, pyttsx3_available,
                                          c, env))}

\* provider.get_cost_estimate(text)
ProviderCostEstimate(p, text) ==
    IF p = OPENAI THEN OpenAICostEstimate(text) ELSE SystemCostEstimate(text)

\* A fallback that asks the current provider again
FallbackRetriesPaid(o, text, voice, env) ==
    IF o.raised THEN {o}
    ELSE IF ~o.ret /\ current_quality # BASIC
    THEN {[b EXCEPT !.trace = o.trace \o b.trace] :
             b \in ProviderSpeakText(current_provider, text, voice, o.cache,
                                     [env EXCEPT !.sys = env.sys2])}
    ELSE {o}

\* A fallback taken whatever the current quality
FallbackFromBasic(o, text, voice, env) ==
    IF o.raised THEN {o}
    ELSE IF ~o.ret
    THEN {[b EXCEPT !.trace = o.trace \o b.trace] :
             b \in ProviderSpeakText(providers[BASIC], text, voice, o.cache,
                                     [env EXCEPT !.sys = env.sys2])}
    ELSE {o}

\* speak_text, lines 529-534: what follows the current provider's answer o
Fallback(o, text, voice, env) ==
    IF o.raised THEN {o}
    ELSE IF ~o.ret /\ current_quality # BASIC
    THEN {[b EXCEPT !.trace = o.trace \o b.trace] :
             b \in ProviderSpeakText(providers[BASIC], text, voice, o.cache,
                                     [env EXCEPT !.sys = env.sys2])}
    ELSE {o}

\* speak_text: the set of results it can end in
ServiceSpeakTextOutcomes(text, voice, env) ==
    IF IsBlank(text) THEN {Returned(TRUE, cache, <<>>)}
    ELSE LET cost == IF current_quality # BASIC
                     THEN <<Ev(current_provider, "get_cost_estimate", text)>>
                     ELSE <<>>
         IN UNION { Fallback([o EXCEPT !.trace = cost \o o.trace], text, voice, env) :
                       o \in ProviderSpeakText(current_provider, text, voice, cache, env) }

\* A set_quality that records the quality before checking the registry
SetQualityUnchecked(quality) ==
    IF quality \in DOMAIN providers
    THEN [ret |-> TRUE, quality |-> quality, provider |-> providers[quality]]
    ELSE [ret |-> FALSE, quality |-> quality, provider |-> current_provider]

\* set_quality: [ret, quality, provider]
SetQualityResult(quality) ==
    IF quality \in DOMAIN providers
    THEN [ret |-> TRUE, quality |-> quality, provider |-> providers[quality]]
    ELSE [ret |-> FALSE, quality |-> current_quality, provider |-> current_provider]

\* get_available_qualities
GetAvailableQualities == DOMAIN providers

\* The cache operations routed through the current provider only
HasOpenAIAsCurrent == current_provider = OPENAI

\* The OpenAITTSProvider among providers.values(), if any
HasOpenAIProvider == \E q \in DOMAIN providers : providers[q] = OPENAI

-----
(* The inputs *)

\* An operation and its arguments, each argument in its printed form
Op(name, a, b) == [name |-> name, a |-> a, b |-> b]
NoArg == ""
None == "None"

WorkingChoices == {{}, {"afplay", "mpg123", "winsound"}}
WriteOutcomes == {"ok", "open_failed", "write_failed"}
StuckChoices(c) == {{}, Glob(c)}

\* the remote API and the write that follows it
ApiEnvs ==
    {[api_ok |-> FALSE, size |-> 1, write |-> "ok"]}
    \cup {[api_ok |-> TRUE, size |-> n, write |-> w] :
             n \in 1..MaxPayloadMb, w \in WriteOutcomes}

Env(a, working, sys, sys2, stuck) ==
    [api_ok |-> a.api_ok, size |-> a.size, write |-> a.write,
     working |-> working, sys |-> sys, sys2 |-> sys2, stuck |-> stuck]

NoApi == [api_ok |-> FALSE, size |-> 1, write |-> "ok"]

\* The collaborators EnhancedTTSService.speak_text can reach: through the
\* OpenAI provider the API, the cache file, the player and, on fallback, the
\* system engine; through the system provider the system engine, twice.
Envs ==
    IF current_provider = OPENAI
    THEN {Env(a, w, TRUE, s2, {}) : a \in ApiEnvs, w \in WorkingChoices,
                                    s2 \in BOOLEAN}
    ELSE {Env(NoApi, {}, s, s2, {}) : s \in BOOLEAN, s2 \in BOOLEAN}

OpenAIEnvs == {Env(a, w, TRUE, TRUE, {}) : a \in ApiEnvs, w \in WorkingChoices}

SystemEnvs == {Env(NoApi, {}, s, TRUE, {}) : s \in BOOLEAN}

NoEnv == Env(NoApi, {}, TRUE, TRUE, {})

-----------------------------------------------------------------------------
(* The state after construction *)

InitAges == {0, 31}
MaxAgeChoices == {DefaultMaxAgeDays}
ConfigQualities == TTSQuality

Configs ==
    [tts_quality : ConfigQualities,
     openai_tts_voice : {"nova"},
     tts_speed_multiplier : {"1.0"},
     audio_format : {"mp3"},
     audio_cache_max_size_mb : {CacheMaxSizeMb},
     audio_cache_max_age_days : MaxAgeChoices,
     audio_cache_cleanup_threshold : {CleanupThresholdPct}]

\* The files earlier runs may have left in cache_dir: audio cached for the
\* requests this configuration can make and audio cached under another text.
InitRequests(cfg) ==
    {<<text, voice>> : text \in {"hi", "old"}, voice \in {"nova", ALLOY}}
    \ {<<"old", ALLOY>>}

InitFiles(cfg) ==
    {[name |-> CacheFile(GetCacheKey(r[1], r[2], ModelName(cfg), Speed(cfg))),
      entry |-> [mtime |-> 0 - age, size |-> n,
                 audio |-> ApiResponse(ModelName(cfg), r[2], r[1],
                                       AudioFormatOf(cfg), Speed(cfg), n).audio]] :
        r \in InitRequests(cfg), age \in InitAges, n \in 1..MaxPayloadMb}

InitDisks(cfg) ==
    {[f \in {x.name : x \in S} |-> (CHOOSE x \in S : x.name = f).entry] :
        S \in {T \in SUBSET InitFiles(cfg) :
                  /\ Cardinality(T) <= MaxInitFiles
                  /\ \A x, y \in T : x.name = y.name => x = y}}

Init ==
    /\ config \in Configs
    /\ \E host \in Hosts : /\ platform = host.platform
                          /\ pyttsx3_available = host.pyttsx3
    /\ client \in BOOLEAN
    /\ providers = BuildProviders(client)
    /\ current_quality = QualityStr(config)
    /\ current_provider = GetBestAvailableProvider(providers, current_quality)
    /\ now = 0
    \* OpenAITTSProvider.__init__, lines 82-89: the startup sweep
    /\ \E disk \in InitDisks(config), cleanup_on_startup \in BOOLEAN :
          cache = IF client /\ cleanup_on_startup
                  THEN CleanupExpiredCache(disk, now, config, {})
                  ELSE disk
    /\ op = Op("__init__", NoArg, NoArg)
    /\ ret = None
    /\ raised = (current_provider = RAISE)
    /\ trace = <<>>
    /\ breaker = NoBreaker
    /\ db = NoDb
    /\ instances = NoInstances

-----------------------------------------------------------------------------
(* The operations *)

conf == <<config, platform, client, pyttsx3_available>>
service == <<providers, current_quality, current_provider>>

\* What the caller of an operation sees
Answers(name, a, b, value, tr) ==
    /\ op' = Op(name, a, b)
    /\ ret' = value
    /\ raised' = FALSE
    /\ trace' = tr

Ends(name, a, b, o) ==
    /\ op' = Op(name, a, b)
    /\ ret' = IF o.raised THEN None ELSE o.ret
    /\ raised' = o.raised
    /\ trace' = o.trace
    /\ cache' = o.cache

\* EnhancedTTSService.speak_text(text, voice)
ServiceSpeakText ==
    \E text \in Texts, voice \in VoiceArgs :
       \E env \in IF IsBlank(text) THEN {NoEnv} ELSE Envs :
          \E o \in ServiceSpeakTextOutcomes(text, voice, env) :
             /\ Ends("service.speak_text", text, voice, o)
             /\ UNCHANGED <<others, conf, service, now>>

\* OpenAITTSProvider.speak_text(text, voice), called on the provider itself
OpenAISpeakText ==
    \E text \in Texts, voice \in VoiceArgs :
       \E env \in IF IsBlank(text) THEN {NoEnv} ELSE OpenAIEnvs :
          \E o \in OpenAISpeakTextOutcomes(text, voice, config, client, cache, now,
                                           platform, env) :
             /\ Ends("openai.speak_text", text, voice, o)
             /\ UNCHANGED <<others, conf, service, now>>

\* SystemTTSProvider.speak_text(text, voice), called on the provider itself
SystemSpeakText ==
    \E text \in Texts, voice \in VoiceArgs :
       \E env \in IF IsBlank(text) THEN {NoEnv} ELSE SystemEnvs :
          /\ Ends("system.speak_text", text, voice,
                  SystemSpeakTextResult(text, voice, config, pyttsx3_available,
                                        cache, env))
          /\ UNCHANGED <<others, conf, service, now>>

\* EnhancedTTSService.set_quality(quality)
SetQuality ==
    \E quality \in TTSQuality :
       LET r == SetQualityResult(quality)
       IN /\ current_quality' = r.quality
          /\ current_provider' = r.provider
          /\ Answers("set_quality", quality, NoArg, r.ret, <<>>)
          /\ UNCHANGED <<others, conf, providers, cache, now>>

\* EnhancedTTSService.get_available_qualities()
ServiceGetAvailableQualities ==
    /\ Answers("get_available_qualities", NoArg, NoArg, GetAvailableQualities, <<>>)
    /\ UNCHANGED <<others, conf, service, cache, now>>

\* EnhancedTTSService.get_cost_estimate(text)
ServiceGetCostEstimate ==
    \E text \in Texts :
       /\ Answers("get_cost_estimate", text, NoArg,
                  ProviderCostEstimate(current_provider, text),
                  <<Ev(current_provider, "get_cost_estimate", text)>>)
       /\ UNCHANGED <<others, conf, service, cache, now>>

\* EnhancedTTSService.get_cache_stats()
ServiceGetCacheStats ==
    /\ Answers("get_cache_stats", NoArg, NoArg,
               IF HasOpenAIProvider
               THEN GetCacheStats(cache, now)
               ELSE [error |-> "OpenAI TTS provider not available"],
               <<>>)
    /\ UNCHANGED <<others, conf, service, cache, now>>

\* EnhancedTTSService.clear_cache()
ServiceClearCache ==
    \E stuck \in StuckChoices(cache) :
       LET r == IF HasOpenAIProvider
                THEN ClearCache(cache, stuck)
                ELSE [count |-> 0, cache |-> cache]
       IN /\ cache' = r.cache
          /\ Answers("clear_cache", NoArg, NoArg, r.count, <<>>)
          /\ UNCHANGED <<others, conf, service, now>>

\* EnhancedTTSService.cleanup_cache()
ServiceCleanupCache ==
    \E stuck \in StuckChoices(cache) :
       /\ cache' = IF HasOpenAIProvider
                   THEN CleanupExpiredCache(cache, now, config, stuck)
                   ELSE cache
       /\ Answers("cleanup_cache", NoArg, NoArg, None, <<>>)
       /\ UNCHANGED <<others, conf, service, now>>

Next ==
    \/ ServiceSpeakText
    \/ SetQuality
    \/ ServiceGetAvailableQualities
    \/ ServiceGetCostEstimate
    \/ ServiceGetCacheStats
    \/ ServiceClearCache
    \/ ServiceCleanupCache

Spec == Init /\ [][Next]_vars

\* The providers called on their own
NextProvider ==
    \/ OpenAISpeakText
    \/ SystemSpeakText

SpecProvider == Init /\ [][NextProvider]_vars

-----------------------------------------------------------------------------
(* The cache methods of OpenAITTSProvider, called on the provider itself *)

FS == "fs"              \* the file system under cache_dir

CacheKeys == {"k1", "k2"}

\* n MB of audio data
RECURSIVE Bytes(_, _)
Bytes(byte, n) == IF n = 0 THEN "" ELSE byte \o Bytes(byte, n - 1)

\* response.content: the audio and its size in MB
CachePayloads ==
    {[audio |-> Bytes("x", n), size |-> n] :
        n \in (1..MaxPayloadMb) \cup {CacheMaxSizeMb + 1}}

CacheInitAges == {1, ShortMaxAgeDays + 1, DefaultMaxAgeDays + 1}

CacheConfigs ==
    {[cfg EXCEPT !.audio_cache_max_age_days = d] :
        cfg \in {c \in Configs : c.tts_quality = HD},
        d \in {DefaultMaxAgeDays, ShortMaxAgeDays}}

\* What cache_dir can hold when the methods are called: audio written by
\* earlier runs, and a file that is not a cache file.
CacheInitFiles ==
    {[name |-> CacheFile(k),
      entry |-> [mtime |-> 0 - age, size |-> n, audio |-> Bytes("o", n)]] :
        k \in CacheKeys, age \in CacheInitAges, n \in 1..MaxPayloadMb}
    \cup {[name |-> "notes.txt",
           entry |-> [mtime |-> 0 - (DefaultMaxAgeDays + 1), size |-> 1,
                      audio |-> Bytes("n", 1)]]}

CacheInitDisks ==
    {[f \in {x.name : x \in S} |-> (CHOOSE x \in S : x.name = f).entry] :
        S \in {T \in SUBSET CacheInitFiles :
                  \A x, y \in T : x.name = y.name => x = y}}

\* An available provider over such a directory; with
\* audio_cache_cleanup_on_startup the expired files are already gone, which
\* is one of the directories of CacheInitDisks
InitCache ==
    /\ config \in CacheConfigs
    /\ platform = "linux"
    /\ pyttsx3_available = TRUE
    /\ client = TRUE
    /\ providers = BuildProviders(client)
    /\ current_quality = QualityStr(config)
    /\ current_provider = GetBestAvailableProvider(providers, current_quality)
    /\ now = 0
    /\ cache \in CacheInitDisks
    /\ op = Op("__init__", NoArg, NoArg)
    /\ ret = None
    /\ raised = FALSE
    /\ trace = <<>>
    /\ breaker = NoBreaker
    /\ db = NoDb
    /\ instances = NoInstances

\* The unlink calls that raise OSError during the call
Unlinks(stuck) == <<Ev(FS, "unlink_raises", stuck)>>

\* open(cache_file, "wb"): the file is created, or truncated if it is there
Opened(c, f) == <<Ev(FS, IF f \in DOMAIN c THEN "truncate" ELSE "create", f)>>

\* logger.info of a sweep: the number of files it removed, if any
LogRemoved(before, after) ==
    LET removed_count == Cardinality(DOMAIN before \ DOMAIN after)
    IN IF removed_count > 0
       THEN <<Ev(OPENAI, "log_removed", removed_count)>>
       ELSE <<>>

KeyTexts == {"a", "a|b"}
KeyVoices == {"c", "b|c"}
KeyModels == {"tts-1", "tts-1-hd"}
KeySpeeds == {"1.0"}

\* OpenAITTSProvider._get_cache_key(text, voice, model, speed)
CacheGetCacheKey ==
    \E text \in KeyTexts, voice \in KeyVoices, model \in KeyModels,
       speed \in KeySpeeds :
       /\ Answers("_get_cache_key", ToString(<<text, voice, model, speed>>), NoArg,
                  GetCacheKey(text, voice, model, speed), <<>>)
       /\ UNCHANGED <<others, conf, service, cache, now>>

\* OpenAITTSProvider._get_cached_audio(cache_key)
CacheGetCachedAudio ==
    \E key \in CacheKeys, stuck \in StuckChoices(cache) :
       LET r == GetCachedAudio(cache, key, now, stuck)
       IN /\ cache' = r.cache
          /\ Answers("_get_cached_audio", key, NoArg,
                     IF r.file = "" THEN None ELSE r.file, Unlinks(stuck))
          /\ UNCHANGED <<others, conf, service, now>>

\* OpenAITTSProvider._save_to_cache(cache_key, audio_data); the clock has
\* moved on since the last write
CacheSaveToCache ==
    /\ now < MaxClock
    /\ now' = now + 1
    /\ \E key \in CacheKeys, audio_data \in CachePayloads,
          write \in WriteOutcomes, stuck \in StuckChoices(cache) :
          \E s \in SaveToCache(cache, key, audio_data, now', config, write, stuck) :
             /\ cache' = s.cache
             /\ op' = Op("_save_to_cache", key, audio_data.audio)
             /\ ret' = IF s.raised THEN None ELSE CacheFile(key)
             /\ raised' = s.raised
             /\ trace' = Unlinks(stuck) \o Opened(cache, CacheFile(key))
    /\ UNCHANGED <<others, conf, service>>

\* OpenAITTSProvider._cleanup_expired_cache()
CacheCleanupExpired ==
    \E stuck \in SUBSET Glob(cache) :
       /\ cache' = CleanupExpiredCache(cache, now, config, stuck)
       /\ Answers("_cleanup_expired_cache", NoArg, NoArg, None,
                  Unlinks(stuck) \o LogRemoved(cache, cache'))
       /\ UNCHANGED <<others, conf, service, now>>

\* OpenAITTSProvider._cleanup_by_size(target_size_mb)
CacheCleanupBySize ==
    \E target_size_mb \in 0..CacheMaxSizeMb, stuck \in SUBSET Glob(cache) :
       \E c \in CleanupBySize(cache, target_size_mb, stuck) :
          /\ cache' = c
          /\ Answers("_cleanup_by_size", ToString(target_size_mb), NoArg, None,
                     Unlinks(stuck) \o LogRemoved(cache, c))
          /\ UNCHANGED <<others, conf, service, now>>

\* OpenAITTSProvider._check_cache_size_limits()
CacheCheckSizeLimits ==
    \E stuck \in StuckChoices(cache) :
       \E c \in CheckCacheSizeLimits(cache, config, stuck) :
          /\ cache' = c
          /\ Answers("_check_cache_size_limits", NoArg, NoArg, None,
                     Unlinks(stuck) \o LogRemoved(cache, c))
          /\ UNCHANGED <<others, conf, service, now>>

\* OpenAITTSProvider.clear_cache()
CacheClearCache ==
    \E stuck \in SUBSET Glob(cache) :
       LET r == ClearCache(cache, stuck)
       IN /\ cache' = r.cache
          /\ Answers("clear_cache", NoArg, NoArg, r.count, Unlinks(stuck))
          /\ UNCHANGED <<others, conf, service, now>>

\* OpenAITTSProvider.get_cache_stats(), another actor deleting the files in
\* vanished after the listing
CacheGetCacheStats ==
    \E vanished \in SUBSET Glob(cache) :
       LET r == GetCacheStatsDuring(cache, now, vanished)
       IN /\ cache' = r.cache
          /\ Answers("get_cache_stats", NoArg, NoArg, r.ret,
                     <<Ev(FS, "vanished", vanished)>>)
          /\ UNCHANGED <<others, conf, service, now>>

NextCache ==
    \/ CacheGetCacheKey
    \/ CacheGetCachedAudio
    \/ CacheSaveToCache
    \/ CacheCleanupExpired
    \/ CacheCleanupBySize
    \/ CacheCheckSizeLimits
    \/ CacheClearCache
    \/ CacheGetCacheStats

SpecCache == InitCache /\ [][NextCache]_vars

-----------------------------------------------------------------------------
(* CircuitBreaker (src/error_handling.py).  While the breaker is exercised *)
(* now counts seconds.                                                     *)

MaxFailureThreshold == 2   \* failure_threshold given to the constructor
MaxTimeout == 1            \* timeout given to the constructor, in seconds
MaxBreakerClock == 4       \* seconds that pass while the breaker is exercised
MaxFailureCount == 4       \* failures counted before the exploration stops
MaxCallSeconds == 1        \* seconds the wrapped function takes

CLOSED == "closed"
OPEN == "open"
HALF_OPEN == "half_open"

FUNC == "func"
BREAKER == "breaker"

\* The TTS subsystem while another component is exercised
TtsIdle ==
    /\ config = CHOOSE cfg \in Configs : cfg.tts_quality = BASIC
    /\ platform = "linux"
    /\ pyttsx3_available = TRUE
    /\ client = FALSE
    /\ providers = BuildProviders(client)
    /\ current_quality = QualityStr(config)
    /\ current_provider = GetBestAvailableProvider(providers, current_quality)
    /\ cache = <<>>

\* CircuitBreaker.__init__
NewBreaker(failure_threshold, timeout) ==
    [failure_threshold |-> failure_threshold,
     timeout |-> timeout,
     failure_count |-> 0,
     last_failure_time |-> 0,
     state |-> CLOSED]

\* _on_success
OnSuccess(b) == [b EXCEPT !.failure_count = 0, !.state = CLOSED]

\* A failure handler that opens the circuit only from the closed state
OnFailureFromClosedOnly(b, t) ==
    LET c == [b EXCEPT !.failure_count = @ + 1, !.last_failure_time = t]
    IN IF c.failure_count >= c.failure_threshold /\ b.state = CLOSED
       THEN [c EXCEPT !.state = OPEN]
       ELSE c

\* _on_failure at time t
OnFailure(b, t) ==
    LET c == [b EXCEPT !.failure_count = @ + 1, !.last_failure_time = t]
    IN IF c.failure_count >= c.failure_threshold
       THEN [c EXCEPT !.state = OPEN]
       ELSE c

\* An open circuit that lets a trial call through as soon as timeout has passed
TimedOutAtTimeout(b, t) == t - b.last_failure_time >= b.timeout

\* time.time() - self.last_failure_time > self.timeout
TimedOut(b, t) == t - b.last_failure_time > b.timeout

\* call(func) at time t, func returning or raising an Exception after took
\* seconds: [breaker, raised, ret, trace]
BreakerCall(b, t, returns, took) ==
    IF b.state = OPEN /\ ~TimedOut(b, t)
    THEN [breaker |-> b, raised |-> TRUE, ret |-> None,
          trace |-> <<Ev(BREAKER, "raise", "CircuitBreakerOpenError")>>]
    ELSE LET h == IF b.state = OPEN THEN [b EXCEPT !.state = HALF_OPEN] ELSE b
             entering == IF b.state = OPEN
                         THEN <<Ev(BREAKER, "log", "entering half-open state")>>
                         ELSE <<>>
         IN IF returns
            THEN [breaker |-> OnSuccess(h), raised |-> FALSE, ret |-> "result",
                  trace |-> entering \o <<Ev(FUNC, "call", NoArg)>>]
            ELSE [breaker |-> OnFailure(h, t + took), raised |-> TRUE,
                  ret |-> None,
                  trace |-> entering \o <<Ev(FUNC, "call", NoArg),
                                          Ev(FUNC, "raise", "Exception")>>]

InitBreaker ==
    /\ TtsIdle
    /\ now = 0
    /\ \E failure_threshold \in 1..MaxFailureThreshold, timeout \in 0..MaxTimeout :
          breaker = NewBreaker(failure_threshold, timeout)
    /\ db = NoDb
    /\ instances = NoInstances
    /\ op = Op("__init__", NoArg, NoArg)
    /\ ret = None
    /\ raised = FALSE
    /\ trace = <<>>

\* CircuitBreaker.call(func)
CircuitBreakerCall ==
    \E returns \in BOOLEAN, took \in 0..MaxCallSeconds :
       LET r == BreakerCall(breaker, now, returns, took)
           invoked == \E i \in 1..Len(r.trace) : r.trace[i].who = FUNC
       IN /\ breaker.failure_count < MaxFailureCount
          /\ now + took <= MaxBreakerClock
          /\ breaker' = r.breaker
          /\ now' = IF invoked THEN now + took ELSE now
          /\ op' = Op("call", IF returns THEN "returns" ELSE "raises",
                      ToString(took))
          /\ ret' = r.ret
          /\ raised' = r.raised
          /\ trace' = r.trace
          /\ UNCHANGED <<conf, service, cache, db, instances>>

\* Time passing between two calls
BreakerWait ==
    /\ now < MaxBreakerClock
    /\ now' = now + 1
    /\ Answers("time.sleep", "1", NoArg, None, <<>>)
    /\ UNCHANGED <<conf, service, cache, breaker, db, instances>>

NextBreaker ==
    \/ CircuitBreakerCall
    \/ BreakerWait

SpecBreaker == InitBreaker /\ [][NextBreaker]_vars

-----------------------------------------------------------------------------
(* DatabaseManager (src/db_utils.py): the tables articles and              *)
(* read_articles.  read_articles has UNIQUE(article_id); foreign keys are  *)
(* not enforced.  A row of read_articles is [article_id, read_at].         *)

MaxArticles == 2     \* rows of the table articles
MaxPublished == 2    \* distinct publication dates
MaxDbClock == 1      \* clock ticks while the database is exercised
MaxLimit == 2        \* the limit given to get_unread_articles

DB == "db"

ArticleIds == 1..MaxArticles

\* Ids a caller can pass: those of the articles and one that is no article's
MarkIds == 1..(MaxArticles + 1)

\* summary is NULL ("None"), empty or a text
Summaries == {"None", "", "text"}

\* mark_article_as_read(article_id) at time t: the set of [ret, db] it can
\* end in.  sql: "ok"; "execute_error", cursor.execute raises sqlite3.Error;
\* "commit_error", conn.commit() raises it and the connection's context
\* manager commits again on leaving the with block, which may go through.
\* ret is cursor.rowcount > 0: the INSERT OR IGNORE changed a row.
MarkArticleAsRead(d, article_id, t, sql) ==
    LET conflict == \E r \in d.read_articles : r.article_id = article_id
        inserted == [d EXCEPT !.read_articles =
                         @ \cup {[article_id |-> article_id, read_at |-> t]}]
    IN CASE sql = "execute_error" -> {[ret |-> FALSE, db |-> d]}
         [] sql = "commit_error" ->
               {[ret |-> FALSE, db |-> x] :
                   x \in {d} \cup IF conflict THEN {} ELSE {inserted}}
         [] OTHER -> {[ret |-> ~conflict, db |-> IF conflict THEN d ELSE inserted]}

\* is_article_read
IsArticleRead(d, article_id) ==
    \E r \in d.read_articles : r.article_id = article_id

\* Unread queries that leave out the join with read_articles
UnreadRowsIgnoringRead(d) ==
    {a \in DOMAIN d.articles :
        /\ d.articles[a].summary # "None"
        /\ d.articles[a].summary # ""}

\* The rows the LEFT JOIN ... WHERE of both unread queries selects
UnreadRows(d) ==
    {a \in DOMAIN d.articles :
        /\ ~IsArticleRead(d, a)
        /\ d.articles[a].summary # "None"
        /\ d.articles[a].summary # ""}

\* get_unread_count
GetUnreadCount(d) == Cardinality(UnreadRows(d))

\* get_read_count
GetReadCount(d) == Cardinality(d.read_articles)

Min(a, b) == IF a < b THEN a ELSE b

\* get_unread_articles(limit): the id sequences ORDER BY published DESC
\* LIMIT can give (rows of equal date come in any order)
GetUnreadArticles(d, limit) ==
    LET U == UnreadRows(d)
        k == Min(limit, Cardinality(U))
        published(a) == d.articles[a].published
    IN {s \in [1..k -> U] :
           /\ \A i, j \in 1..k : i < j => /\ s[i] # s[j]
                                          /\ published(s[i]) >= published(s[j])
           /\ \A a \in U : (\A i \in 1..k : s[i] # a)
                              => \A i \in 1..k : published(a) <= published(s[i])}

InitTables ==
    [articles : [ArticleIds -> [summary : Summaries, published : 1..MaxPublished]],
     read_articles : {{[article_id |-> a, read_at |-> 0] : a \in S} :
                         S \in SUBSET MarkIds}]

InitDb ==
    /\ TtsIdle
    /\ now = 0
    /\ breaker = NoBreaker
    /\ db \in InitTables
    /\ instances = NoInstances
    /\ op = Op("__init__", NoArg, NoArg)
    /\ ret = None
    /\ raised = FALSE
    /\ trace = <<>>

\* DatabaseManager.mark_article_as_read(article_id)
DbMarkArticleAsRead ==
    \E article_id \in MarkIds, sql \in {"ok", "execute_error", "commit_error"} :
       \E r \in MarkArticleAsRead(db, article_id, now, sql) :
          /\ db' = r.db
          /\ Answers("mark_article_as_read", ToString(article_id), sql, r.ret,
                     IF sql = "ok" THEN <<>>
                     ELSE <<Ev(DB, "log_error", "Error marking article as read")>>)
          /\ UNCHANGED <<conf, service, cache, now, breaker, instances>>

\* DatabaseManager.get_unread_articles(limit)
DbGetUnreadArticles ==
    \E limit \in 1..MaxLimit :
       \E s \in GetUnreadArticles(db, limit) :
          /\ Answers("get_unread_articles", ToString(limit), NoArg, s, <<>>)
          /\ UNCHANGED <<conf, service, cache, now, breaker, db, instances>>

\* DatabaseManager.get_unread_count()
DbGetUnreadCount ==
    /\ Answers("get_unread_count", NoArg, NoArg, GetUnreadCount(db), <<>>)
    /\ UNCHANGED <<conf, service, cache, now, breaker, db, instances>>

\* DatabaseManager.get_read_count()
DbGetReadCount ==
    /\ Answers("get_read_count", NoArg, NoArg, GetReadCount(db), <<>>)
    /\ UNCHANGED <<conf, service, cache, now, breaker, db, instances>>

\* Time passing between two operations
DbWait ==
    /\ now < MaxDbClock
    /\ now' = now + 1
    /\ Answers("time.sleep", "1", NoArg, None, <<>>)
    /\ UNCHANGED <<conf, service, cache, breaker, db, instances>>

NextDb ==
    \/ DbMarkArticleAsRead
    \/ DbGetUnreadArticles
    \/ DbGetUnreadCount
    \/ DbGetReadCount
    \/ DbWait

SpecDb == InitDb /\ [][NextDb]_vars

-----------------------------------------------------------------------------
(* Two OpenAITTSProvider instances (two processes) on one cache_dir.  Each *)
(* runs speak_text; the steps of a call that touch the directory are       *)
(* separate actions, so that the calls of the two instances interleave.    *)
(* Here a file of cache is [mtime, size, audio, inode]: open(path, "wb")   *)
(* truncates the file that is there or creates a new one, and a write goes *)
(* to the file that was opened, whether or not the path still names it.    *)

Instances == {1, 2}

\* An instance between two calls, before its first one
Idle ==
    [pc |-> "idle", file |-> "", data |-> "", got |-> "", seen |-> "",
     api |-> FALSE, fd |-> 0, plan |-> <<>>, size |-> 0, played |-> "",
     result |-> "None"]

\* What the API returns to the two instances for a request
SharedPayloads == {Bytes("x", CacheMaxSizeMb), Bytes("y", 1)}

\* Audio left by an earlier run
OldPayload == Bytes("o", 1)

SharedInitDisks ==
    {[f \in F |-> [mtime |-> 0 - age[f], size |-> Len(OldPayload),
                   audio |-> OldPayload, inode |-> 0]] :
        F \in SUBSET {CacheFile(k) : k \in CacheKeys},
        age \in [{CacheFile(k) : k \in CacheKeys} -> {1, HardMaxAgeDays + 1}]}

\* An inode number no file of the directory and no open file has
FreshInode(c, inst) ==
    CHOOSE n \in 1..(Cardinality(DOMAIN c) + Cardinality(Instances) + 1) :
       /\ \A f \in DOMAIN c : c[f].inode # n
       /\ \A i \in Instances : inst[i].fd # n

\* f.write(data) at offset 0 of a file that holds old
Overlay(old, data) ==
    IF Len(data) >= Len(old) THEN data
    ELSE data \o SubSeq(old, Len(data) + 1, Len(old))

\* cache_files.sort(key=mtime) of _cleanup_by_size over the listing of c:
\* the orders a stable sort can give, as sequences of [file, size]
SortedListings(c) ==
    LET F == Glob(c)
        n == Cardinality(F)
    IN {[i \in 1..n |-> [file |-> s[i], size |-> c[s[i]].size]] :
           s \in {t \in [1..n -> F] :
                     /\ \A i, j \in 1..n : i < j => /\ t[i] # t[j]
                                                    /\ c[t[i]].mtime <= c[t[j]].mtime}}

InitShared ==
    /\ config \in {cfg \in CacheConfigs : cfg.audio_cache_max_age_days = DefaultMaxAgeDays}
    /\ platform = "linux"
    /\ pyttsx3_available = TRUE
    /\ client = TRUE
    /\ providers = BuildProviders(client)
    /\ current_quality = QualityStr(config)
    /\ current_provider = GetBestAvailableProvider(providers, current_quality)
    /\ now = 0
    /\ cache \in SharedInitDisks
    /\ breaker = NoBreaker
    /\ db = NoDb
    /\ instances = [i \in Instances |-> Idle]
    /\ op = Op("__init__", NoArg, NoArg)
    /\ ret = None
    /\ raised = FALSE
    /\ trace = <<>>

\* What a step of instance i leaves alone besides cache and instances
Step(name, i) ==
    /\ Answers(name, ToString(i), NoArg, None, <<>>)
    /\ UNCHANGED <<conf, service, now, breaker, db>>

\* speak_text is called: lines 323-341, up to the cache lookup
SharedSpeakText(i) ==
    /\ instances[i].pc = "idle"
    /\ \E key \in CacheKeys, data \in SharedPayloads :
          instances' = [instances EXCEPT ![i] =
                           [Idle EXCEPT !.pc = "exists", !.file = CacheFile(key),
                                        !.data = data]]
    /\ UNCHANGED cache
    /\ Step("speak_text", i)

\* _get_cached_audio, line 114: cache_file.exists()
SharedExists(i) ==
    LET me == instances[i] IN
    /\ me.pc = "exists"
    /\ instances' = [instances EXCEPT ![i] =
                        IF me.file \in DOMAIN cache
                        THEN [me EXCEPT !.pc = "stat"]
                        ELSE [me EXCEPT !.pc = "open", !.got = "absent"]]
    /\ UNCHANGED cache
    /\ Step("exists", i)

\* _get_cached_audio, line 116: cache_file.stat() and the age test.  stat
\* raises FileNotFoundError when the file is gone; nothing in
\* _get_cached_audio catches it, and the except clause of speak_text (lines
\* 371-373) answers False.
SharedStat(i) ==
    LET me == instances[i] IN
    /\ me.pc = "stat"
    /\ instances' = [instances EXCEPT ![i] =
                        IF me.file \notin DOMAIN cache
                        THEN [me EXCEPT !.pc = "idle", !.got = "raised",
                                        !.result = "False"]
                        ELSE IF now - cache[me.file].mtime < HardMaxAgeDays
                        THEN [me EXCEPT !.pc = "play", !.got = "hit",
                                        !.seen = cache[me.file].audio]
                        ELSE [me EXCEPT !.pc = "unlink"]]
    /\ UNCHANGED cache
    /\ Step("stat", i)

\* _get_cached_audio, lines 120-124: the unlink of an expired file, any
\* exception of which is logged
SharedUnlinkExpired(i) ==
    LET me == instances[i] IN
    /\ me.pc = "unlink"
    /\ cache' = [f \in DOMAIN cache \ {me.file} |-> cache[f]]
    /\ instances' = [instances EXCEPT ![i] = [me EXCEPT !.pc = "open", !.got = "absent"]]
    /\ Step("unlink", i)

\* speak_text, lines 354-364, and _save_to_cache, line 129: the API call
\* and open(cache_file, "wb")
SharedOpen(i) ==
    LET me == instances[i]
        inode == IF me.file \in DOMAIN cache THEN cache[me.file].inode
                 ELSE FreshInode(cache, instances)
    IN /\ me.pc = "open"
       /\ cache' = Put(cache, me.file, [mtime |-> now, size |-> 0,
                                        audio |-> SubSeq(me.data, 1, 0),
                                        inode |-> inode])
       /\ instances' = [instances EXCEPT ![i] =
                           [me EXCEPT !.pc = "write", !.api = TRUE, !.fd = inode]]
       /\ Step("open", i)

\* _save_to_cache, line 130: f.write(audio_data) and the close
SharedWrite(i) ==
    LET me == instances[i] IN
    /\ me.pc = "write"
    /\ cache' = IF me.file \in DOMAIN cache /\ cache[me.file].inode = me.fd
                THEN LET audio == Overlay(cache[me.file].audio, me.data)
                     IN Put(cache, me.file, [mtime |-> now, size |-> Len(audio),
                                             audio |-> audio, inode |-> me.fd])
                ELSE cache
    /\ instances' = [instances EXCEPT ![i] = [me EXCEPT !.pc = "size", !.fd = 0]]
    /\ Step("write", i)

\* _check_cache_size_limits and the listing of _cleanup_by_size,
\* lines 190-218
SharedCheckSize(i) ==
    LET me == instances[i] IN
    /\ me.pc = "size"
    /\ IF GetCacheSizeMb(cache) * 100
             > config.audio_cache_max_size_mb * config.audio_cache_cleanup_threshold
       THEN \E plan \in SortedListings(cache) :
               instances' = [instances EXCEPT ![i] =
                                [me EXCEPT !.pc = "evict", !.plan = plan,
                                           !.size = SumSize(cache, Glob(cache))]]
       ELSE instances' = [instances EXCEPT ![i] = [me EXCEPT !.pc = "play"]]
    /\ UNCHANGED cache
    /\ Step("_check_cache_size_limits", i)

\* _cleanup_by_size, lines 225-237: one round of the loop.  The unlink of a
\* file that is gone raises OSError, which is logged.
SharedEvict(i) ==
    LET me == instances[i] IN
    /\ me.pc = "evict"
    /\ IF me.plan = <<>> \/ me.size <= config.audio_cache_max_size_mb
       THEN /\ instances' = [instances EXCEPT ![i] =
                                [me EXCEPT !.pc = "play", !.plan = <<>>, !.size = 0]]
            /\ UNCHANGED cache
       ELSE LET head == me.plan[1] IN
            /\ cache' = [f \in DOMAIN cache \ {head.file} |-> cache[f]]
            /\ instances' = [instances EXCEPT ![i] =
                                [me EXCEPT !.plan = Tail(me.plan),
                                           !.size = IF head.file \in DOMAIN cache
                                                    THEN me.size - head.size
                                                    ELSE me.size]]
    /\ Step("_cleanup_by_size", i)

\* _play_audio_file(cached_file), lines 347 and 367: the player reads the
\* file; it fails when the file is gone, and speak_text answers False
SharedPlay(i) ==
    LET me == instances[i] IN
    /\ me.pc = "play"
    /\ instances' = [instances EXCEPT ![i] =
                        IF me.file \in DOMAIN cache
                        THEN [me EXCEPT !.pc = "idle", !.played = cache[me.file].audio,
                                        !.result = "True"]
                        ELSE [me EXCEPT !.pc = "idle", !.result = "False"]]
    /\ UNCHANGED cache
    /\ Step("_play_audio_file", i)

NextShared ==
    \/ \E i \in Instances : SharedSpeakText(i)
    \/ \E i \in Instances : SharedExists(i)
    \/ \E i \in Instances : SharedStat(i)
    \/ \E i \in Instances : SharedUnlinkExpired(i)
    \/ \E i \in Instances : SharedOpen(i)
    \/ \E i \in Instances : SharedWrite(i)
    \/ \E i \in Instances : SharedCheckSize(i)
    \/ \E i \in Instances : SharedEvict(i)
    \/ \E i \in Instances : SharedPlay(i)

SpecShared == InitShared /\ [][NextShared]_vars

-----------------------------------------------------------------------------
(* The claims *)

Has(tr, who, what) == \E i \in 1..Len(tr) : tr[i].who = who /\ tr[i].what = what

Count(tr, who, what) ==
    Cardinality({i \in 1..Len(tr) : tr[i].who = who /\ tr[i].what = what})

Answered(tr, who, value) == \E i \in 1..Len(tr) : tr[i] = Ev(who, "answer", value)

Last(tr) == tr[Len(tr)]

\* C1: when the paid provider answers false to EnhancedTTSService.speak_text
\* and the current quality is Standard or HD, the Basic provider is called
\* exactly once, after the paid provider answered; its answer is what
\* speak_text returns, and the paid provider is not called again.
C1_FallbackOnce ==
    (/\ op.name = "service.speak_text"
     /\ ~IsBlank(op.a)
     /\ current_quality \in {STANDARD, HD}
     /\ Answered(trace, OPENAI, "False"))
    => /\ ~raised
       /\ Count(trace, OPENAI, "speak_text") = 1
       /\ Count(trace, SYSTEM, "speak_text") = 1
       /\ \E i, j \in 1..Len(trace) :
             /\ i < j
             /\ trace[i] = Ev(OPENAI, "answer", "False")
             /\ trace[j] = Ev(SYSTEM, "speak_text", op.a)
       /\ Last(trace).who = SYSTEM
       /\ Last(trace).what = "answer"
       /\ ret = (Last(trace).arg = "True")

C1_Witness ==
    /\ op.name = "service.speak_text"
    /\ current_quality = STANDARD
    /\ Answered(trace, OPENAI, "False")
    /\ Answered(trace, SYSTEM, "True")
    /\ ~raised
    /\ ret = TRUE

\* C2: when the current quality is Basic and the Basic provider answers false,
\* EnhancedTTSService.speak_text returns false, having called the Basic
\* provider exactly once and the paid provider and the player not at all.
C2_BasicFailureIsFinal ==
    (/\ op.name = "service.speak_text"
     /\ current_quality = BASIC
     /\ Answered(trace, SYSTEM, "False"))
    => /\ ~raised
       /\ ret = FALSE
       /\ Count(trace, SYSTEM, "speak_text") = 1
       /\ \A i \in 1..Len(trace) : trace[i].who = SYSTEM

C2_Witness ==
    /\ op.name = "service.speak_text"
    /\ current_quality = BASIC
    /\ client
    /\ Answered(trace, SYSTEM, "False")
    /\ ~raised
    /\ ret = FALSE

\* C3: speak_text with empty or whitespace-only text returns true, for both
\* providers (the paid one whether or not it is available) and for the
\* coordinator, and calls no collaborator.
C3_BlankTextIsSuccess ==
    (/\ op.name \in {"openai.speak_text", "system.speak_text", "service.speak_text"}
     /\ IsBlank(op.a))
    => /\ ~raised
       /\ ret = TRUE
       /\ trace = <<>>

\* The cache file OpenAITTSProvider.speak_text(text, voice) looks up
KeyFile(text, voice) ==
    CacheFile(GetCacheKey(text, VoiceName(voice, config), ModelName(config),
                          Speed(config)))

\* The lookup of KeyFile(text, voice) finds an entry that has not expired
Fresh(text, voice) ==
    /\ KeyFile(text, voice) \in DOMAIN cache
    /\ now - cache[KeyFile(text, voice)].mtime < HardMaxAgeDays

\* OpenAITTSProvider.speak_text is called with non-empty text whose entry is
\* in the cache and has not expired
C4_Hit ==
    /\ op'.name = "openai.speak_text"
    /\ ~IsBlank(op'.a)
    /\ Fresh(op'.a, op'.b)

Rank(e) ==
    CASE e.who = OPENAI /\ e.what = "cache_check" -> 1
      [] e.who = OPENAI /\ e.what = "api" -> 2
      [] e.who = OPENAI /\ e.what = "api_error" -> 3
      [] e.who = OPENAI /\ e.what = "store" -> 3
      [] e.who = PLAYER -> 4
      [] OTHER -> 5

\* C5: in one speak_text call of the paid provider the cache is checked
\* before the remote API is called, the API is called before the payload is
\* stored, and a synthesized payload is stored before it is played; each of
\* the first three happens at most once.
C5_CheckApiStorePlay ==
    op.name = "openai.speak_text"
    => /\ \A i, j \in 1..Len(trace) : i < j => Rank(trace[i]) <= Rank(trace[j])
       /\ Count(trace, OPENAI, "cache_check") <= 1
       /\ Count(trace, OPENAI, "api") <= 1
       /\ Count(trace, OPENAI, "store") <= 1
       /\ Has(trace, OPENAI, "api") => Has(trace, OPENAI, "cache_check")
       /\ Has(trace, OPENAI, "store") => Has(trace, OPENAI, "api")
       /\ \A i \in 1..Len(trace) :
             trace[i].who = PLAYER =>
                /\ Has(trace, OPENAI, "cache_check")
                /\ Has(trace, OPENAI, "api") => Has(trace, OPENAI, "store")

C5_Witness ==
    /\ op.name = "openai.speak_text"
    /\ trace = <<Ev(OPENAI, "cache_check", KeyFile(op.a, op.b)),
                 Ev(OPENAI, "api", ModelName(config)),
                 Ev(OPENAI, "store", KeyFile(op.a, op.b)),
                 Ev(PLAYER, "paplay", KeyFile(op.a, op.b)),
                 Ev(PLAYER, "aplay", KeyFile(op.a, op.b)),
                 Ev(PLAYER, "mpg123", KeyFile(op.a, op.b))>>
    /\ ret = TRUE

\* The remote API raised during OpenAITTSProvider.speak_text
C6_ApiRaised ==
    /\ op'.name = "openai.speak_text"
    /\ Has(trace', OPENAI, "api_error")

\* C6 as claimed: when the remote call raises, speak_text returns false
\* after one API attempt and the cache entries are what they were.
C6_ApiErrorLeavesCache ==
    [][C6_ApiRaised =>
          /\ ~raised'
          /\ ret' = FALSE
          /\ Count(trace', OPENAI, "api") = 1
          /\ cache' = cache]_vars

\* C6, amended: when the remote call raises, speak_text returns false after
\* one API attempt and no cache entry is added or changed; the only entry
\* that can be gone is the expired entry of the looked-up key, which the
\* lookup deleted.
C6_ApiErrorCachesNothing ==
    [][C6_ApiRaised =>
          /\ ~raised'
          /\ ret' = FALSE
          /\ Count(trace', OPENAI, "api") = 1
          /\ ~Has(trace', OPENAI, "store")
          /\ \A f \in DOMAIN cache' : f \in DOMAIN cache /\ cache'[f] = cache[f]
          /\ \A f \in DOMAIN cache \ DOMAIN cache' :
                /\ f = KeyFile(op'.a, op'.b)
                /\ ~Fresh(op'.a, op'.b)]_vars

C6_Witness ==
    /\ op.name = "openai.speak_text"
    /\ Has(trace, OPENAI, "api_error")
    /\ Count(trace, OPENAI, "api") = 1
    /\ ~raised
    /\ ret = FALSE

CoordinatorOps ==
    {"service.speak_text", "set_quality", "get_available_qualities",
     "get_cost_estimate", "get_cache_stats", "clear_cache", "cleanup_cache"}

\* C7: no public operation of EnhancedTTSService raises; speak_text returns
\* a boolean, which is false when every provider it called failed, also when
\* the failure was a playback that raised.
C7_NothingRaises ==
    op.name \in CoordinatorOps
    => /\ ~raised
       /\ op.name = "service.speak_text" =>
             /\ ret \in BOOLEAN
             /\ (/\ Has(trace, OPENAI, "answer") \/ Has(trace, SYSTEM, "answer")
                 /\ ~Answered(trace, OPENAI, "True")
                 /\ ~Answered(trace, SYSTEM, "True")) => ret = FALSE

C7_Witness ==
    /\ op.name = "service.speak_text"
    /\ Has(trace, OPENAI, "play_error")
    /\ Answered(trace, SYSTEM, "False")
    /\ ~raised
    /\ ret = FALSE

\* C8: set_quality(tier) returns true and makes tier the current quality and
\* the registry's provider for tier the current provider when tier is
\* registered; otherwise it returns false and changes neither; the registry
\* is never changed.
C8_SetQuality ==
    [][op'.name = "set_quality" =>
          /\ ~raised'
          /\ providers' = providers
          /\ IF op'.a \in DOMAIN providers
             THEN /\ ret' = TRUE
                  /\ current_quality' = op'.a
                  /\ current_provider' = providers[op'.a]
             ELSE /\ ret' = FALSE
                  /\ current_quality' = current_quality
                  /\ current_provider' = current_provider]_vars

C8_Witness ==
    /\ op = Op("set_quality", HD, NoArg)
    /\ ret = TRUE
    /\ config.tts_quality = BASIC
    /\ current_quality = HD
    /\ current_provider = OPENAI

\* C9: construction does not raise; it leaves the configured quality as the
\* current quality and, as the current provider, the registry's provider for
\* that quality when it is registered, else the provider of the first
\* registered tier among HD, Standard, Basic.
C9_BestAvailableProvider ==
    op.name = "__init__"
    => /\ ~raised
       /\ current_quality = config.tts_quality
       /\ current_provider =
             IF config.tts_quality \in DOMAIN providers
             THEN providers[config.tts_quality]
             ELSE IF HD \in DOMAIN providers THEN providers[HD]
             ELSE IF STANDARD \in DOMAIN providers THEN providers[STANDARD]
             ELSE providers[BASIC]

C9_Witness ==
    /\ op.name = "__init__"
    /\ config.tts_quality = HD
    /\ ~client
    /\ current_quality = HD
    /\ current_provider = SYSTEM

\* C10: in every state the registry holds Basic, mapped to the system
\* provider, and holds Standard and HD, mapped to the OpenAI provider,
\* exactly when that provider is available; get_available_qualities returns
\* these tiers whatever was called before.
C10_RegistryFixed ==
    /\ BASIC \in DOMAIN providers
    /\ providers[BASIC] = SYSTEM
    /\ \A q \in {STANDARD, HD} :
          /\ q \in DOMAIN providers <=> client
          /\ q \in DOMAIN providers => providers[q] = OPENAI
    /\ DOMAIN providers \subseteq TTSQuality
    /\ op.name = "get_available_qualities" =>
          ret = IF client THEN TTSQuality ELSE {BASIC}

C10_Witness ==
    /\ op.name = "get_available_qualities"
    /\ ~client
    /\ config.tts_quality = HD
    /\ ret = {BASIC}

\* The model name the OpenAI API is asked for under quality tier q
ModelFor(q) == IF q = HD THEN "tts-1-hd" ELSE "tts-1"

\* C11: whenever EnhancedTTSService.speak_text reaches the remote API, the
\* model it passes (and keys the cache with) is the HD model when the
\* coordinator's current quality is HD and the standard model otherwise,
\* also after set_quality changed the quality.
C11_ModelFollowsCurrentQuality ==
    (op.name = "service.speak_text" /\ ~raised)
    => \A i \in 1..Len(trace) :
          /\ (trace[i].who = OPENAI /\ trace[i].what = "api")
                => trace[i].arg = ModelFor(current_quality)
          /\ (trace[i].who = OPENAI /\ trace[i].what = "cache_check")
                => trace[i].arg =
                      CacheFile(GetCacheKey(op.a, VoiceName(op.b, config),
                                            ModelFor(current_quality), Speed(config)))

CacheOps == {"get_cache_stats", "clear_cache", "cleanup_cache"}

\* C12: the coordinator's get_cache_stats, clear_cache and cleanup_cache act
\* on the one OpenAI provider's cache whenever that provider is registered,
\* whatever the current quality: the statistics count the cache files on
\* disk, clear_cache returns the number of cache files it removed and
\* cleanup_cache removes only expired cache files.  When no OpenAI provider
\* is registered they raise nothing, delete nothing, count no files and
\* report 0 removed.
C12_CacheOpsDelegate ==
    [][op'.name \in CacheOps =>
          /\ ~raised'
          /\ IF client
             THEN CASE op'.name = "get_cache_stats" ->
                         /\ cache' = cache
                         /\ "error" \notin DOMAIN ret'
                         /\ ret'.total_files = Cardinality(Glob(cache))
                         /\ ret'.total_size_mb = SumSize(cache, Glob(cache))
                    [] op'.name = "clear_cache" ->
                         \E stuck \in SUBSET Glob(cache) :
                            /\ DOMAIN cache' = (DOMAIN cache \ Glob(cache)) \cup stuck
                            /\ \A f \in DOMAIN cache' : cache'[f] = cache[f]
                            /\ ret' = Cardinality(Glob(cache) \ stuck)
                    [] op'.name = "cleanup_cache" ->
                         /\ \A f \in DOMAIN cache' :
                               f \in DOMAIN cache /\ cache'[f] = cache[f]
                         /\ \A f \in DOMAIN cache \ DOMAIN cache' :
                               /\ f \in Glob(cache)
                               /\ now - cache[f].mtime > config.audio_cache_max_age_days
             ELSE /\ cache' = cache
                  /\ CASE op'.name = "get_cache_stats" ->
                            "total_files" \notin DOMAIN ret'
                       [] op'.name = "clear_cache" -> ret' = 0
                       [] op'.name = "cleanup_cache" -> ret' = None]_vars

C12_Witness ==
    /\ op.name = "clear_cache"
    /\ client
    /\ current_quality = BASIC
    /\ current_provider = SYSTEM
    /\ ret = 1
    /\ cache = <<>>

\* The age in days of cache file f
Age(f) == now - cache[f].mtime

\* No unlink raised during the call that led to the next state
NoUnlinkRaises == trace'[1] = Ev(FS, "unlink_raises", {})

\* C13: _get_cached_audio(key) returns the file of key exactly when it
\* exists and is younger than the configured audio_cache_max_age_days; a
\* file older than the configured max age is reported absent and deleted.
C13_LookupUsesConfiguredMaxAge ==
    [][op'.name = "_get_cached_audio" =>
          LET f == CacheFile(op'.a) IN
          /\ ret' = IF f \in DOMAIN cache
                       /\ Age(f) < config.audio_cache_max_age_days
                    THEN f ELSE None
          /\ (/\ f \in DOMAIN cache
              /\ Age(f) > config.audio_cache_max_age_days
              /\ NoUnlinkRaises) => f \notin DOMAIN cache']_vars

C16_RoundTrip ==
    [][(/\ op.name = "_save_to_cache"
        /\ ~raised
        /\ op'.name = "_get_cached_audio"
        /\ op'.a = op.a)
       => /\ ret' = CacheFile(op.a)
          /\ ret' \in DOMAIN cache'
          /\ cache'[ret'].audio = op.b
          /\ cache'[ret'].size = Len(op.b)]_vars

\* What _cleanup_by_size(target) may do between two directories, given the
\* files whose unlink raises
EvictedOldestFirst(before, after, target, stuck) ==
    LET deleted == DOMAIN before \ DOMAIN after
        left == SumSize(after, Glob(after))
    IN /\ DOMAIN after \subseteq DOMAIN before
       /\ \A f \in DOMAIN after : after[f] = before[f]
       /\ deleted \subseteq Glob(before)
       \* oldest first: no file goes while an older one that can go stays
       /\ \A f \in deleted, g \in Glob(after) :
             before[g].mtime < before[f].mtime => g \in stuck
       \* it stops as soon as the rest fits: the last file deleted was needed
       /\ deleted # {} =>
             \E f \in deleted :
                /\ \A g \in deleted : before[g].mtime <= before[f].mtime
                /\ left + before[f].size > target
       \* it goes on until the rest fits or nothing more can go
       /\ left <= target \/ Glob(after) \subseteq stuck
       \* the newest file survives when it alone fits
       /\ stuck = {} =>
             \A n \in Glob(before) :
                (/\ \A g \in Glob(before) \ {n} : before[g].mtime < before[n].mtime
                 /\ before[n].size <= target) => n \in DOMAIN after

OverThreshold(c) ==
    SumSize(c, Glob(c)) * 100
       > config.audio_cache_max_size_mb * config.audio_cache_cleanup_threshold

\* C18: _check_cache_size_limits evicts exactly when the total size of the
\* cache files strictly exceeds audio_cache_max_size_mb times
\* audio_cache_cleanup_threshold, and then evicts oldest first down to the
\* full audio_cache_max_size_mb, not to the threshold; at or below the
\* threshold it deletes nothing.
C18_SizeCheck ==
    [][op'.name = "_check_cache_size_limits" =>
          IF OverThreshold(cache)
          THEN EvictedOldestFirst(cache, cache', config.audio_cache_max_size_mb,
                                  trace'[1].arg)
          ELSE cache' = cache /\ Len(trace') = 1]_vars

C18_Witness ==
    /\ op.name = "_check_cache_size_limits"
    /\ trace = Unlinks({})
    /\ OverThreshold(cache)
    /\ SumSize(cache, Glob(cache)) = config.audio_cache_max_size_mb
    /\ Cardinality(Glob(cache)) = 2

\* The directory once _save_to_cache(key, data) has written its file
Written(c, f, data, t) ==
    [g \in DOMAIN c \cup {f} |->
        IF g = f THEN [mtime |-> t, size |-> Len(data), audio |-> data] ELSE c[g]]

\* C19: the cache holds one entry per key: _save_to_cache(key, data) that
\* returns has written data to the one file of key, replacing what that file
\* held when it was there (the number of files does not grow), and has then
\* run the size check over the directory with the new file in it.
C19_SaveOverwrites ==
    [][(op'.name = "_save_to_cache" /\ ~raised') =>
          LET f == CacheFile(op'.a)
              written == Written(cache, f, op'.b, now')
          IN /\ ret' = f
             /\ f \in DOMAIN cache' =>
                   /\ cache'[f].audio = op'.b
                   /\ cache'[f].mtime = now'
             /\ f \in DOMAIN cache =>
                   Cardinality(DOMAIN cache') <= Cardinality(DOMAIN cache)
             /\ IF OverThreshold(written)
                THEN EvictedOldestFirst(written, cache',
                                        config.audio_cache_max_size_mb, trace'[1].arg)
                ELSE cache' = written]_vars

C19_Witness ==
    /\ op = Op("_save_to_cache", "k1", "x")
    /\ ~raised
    /\ Has(trace, FS, "truncate")
    /\ CacheFile("k1") \in DOMAIN cache
    /\ cache[CacheFile("k1")] = [mtime |-> now, size |-> 1, audio |-> "x"]
    /\ CacheFile("k2") \in DOMAIN cache

\* C20: _get_cache_key is deterministic and unambiguous: two calls give the
\* same key exactly when they were given the same (text, voice, model,
\* speed), also when a field contains the character the fields are joined
\* with.
C20_KeyUnambiguous ==
    [][(op.name = "_get_cache_key" /\ op'.name = "_get_cache_key") =>
          (ret' = ret <=> op'.a = op.a)]_vars

\* C21: clear_cache deletes every cache file whose deletion does not fail and
\* returns the number it removed; when no deletion fails the count is the
\* number of cache entries before the call, and a get_cache_stats that
\* follows reports total_files = 0.
C21_ClearEmptiesCache ==
    [][/\ op'.name = "clear_cache" =>
            LET stuck == trace'[1].arg
                gone == Glob(cache) \ stuck
            IN /\ ~raised'
               /\ DOMAIN cache' = DOMAIN cache \ gone
               /\ \A f \in DOMAIN cache' : cache'[f] = cache[f]
               /\ ret' = Cardinality(gone)
               /\ stuck = {} => /\ ret' = Cardinality(Glob(cache))
                                /\ Glob(cache') = {}
       /\ (/\ op.name = "clear_cache"
           /\ trace[1] = Ev(FS, "unlink_raises", {})
           /\ op'.name = "get_cache_stats")
          => /\ ~raised'
             /\ ret'.total_files = 0]_vars

C21_Witness ==
    /\ op.name = "clear_cache"
    /\ trace[1] = Ev(FS, "unlink_raises", {})
    /\ ~raised
    /\ ret = 2
    /\ DOMAIN cache = {"notes.txt"}

\* C23: get_cache_stats creates, changes and deletes no file itself, and when
\* another actor deletes files between the listing and their stat it skips
\* those files and still returns a result: the listed count, and size and
\* oldest age over the files that could still be read.
C23_StatsReadOnlySkipsVanished ==
    [][op'.name = "get_cache_stats" =>
          LET vanished == trace'[1].arg
              seen == Glob(cache) \ vanished
          IN /\ ~raised'
             /\ DOMAIN cache' = DOMAIN cache \ vanished
             /\ \A f \in DOMAIN cache' : cache'[f] = cache[f]
             /\ ret'.total_files = Cardinality(Glob(cache))
             /\ ret'.total_size_mb = SumSize(cache, seen)
             /\ \A f \in seen : ret'.oldest_file_age_days >= Age(f)]_vars

C23_Witness ==
    /\ op.name = "get_cache_stats"
    /\ trace[1].arg # {}
    /\ ~raised
    /\ ret.total_files = 2
    /\ ret.total_size_mb > 0
    /\ Cardinality(Glob(cache)) = 1

\* C22: the batch operations skip a file whose stat or unlink fails and go on
\* with the rest, and no cache operation, put and get included, raises to
\* its caller.
C22_NoCacheOperationRaises ==
    op.name \in {"_get_cached_audio", "_save_to_cache", "_cleanup_expired_cache",
                 "_cleanup_by_size", "_check_cache_size_limits", "clear_cache",
                 "get_cache_stats"}
       => ~raised

\* C28: after every _save_to_cache that returned with no failing deletion
\* the total size of the cache files is at most audio_cache_max_size_mb
\* (the cleanup threshold being at most 1); so a payload that alone exceeds
\* the maximum is evicted by its own save, and the path returned names a
\* file that is no longer there.
C28_SaveKeepsSizeWithinMax ==
    (/\ op.name = "_save_to_cache"
     /\ ~raised
     /\ trace[1] = Ev(FS, "unlink_raises", {}))
    => /\ config.audio_cache_cleanup_threshold <= 100
       /\ GetCacheSizeMb(cache) <= config.audio_cache_max_size_mb
       /\ Len(op.b) > config.audio_cache_max_size_mb
             => /\ ret = CacheFile(op.a)
                /\ CacheFile(op.a) \notin DOMAIN cache

C28_Witness ==
    /\ op.name = "_save_to_cache"
    /\ ~raised
    /\ trace[1] = Ev(FS, "unlink_raises", {})
    /\ Len(op.b) > config.audio_cache_max_size_mb
    /\ ret = CacheFile(op.a)
    /\ CacheFile(op.a) \notin DOMAIN cache
    /\ Has(trace, FS, "create")

\* C29: in one EnhancedTTSService.speak_text call the speak_text of each
\* provider instance is invoked at most once, in every reachable state, also
\* when the configured quality is Standard or HD and only the Basic provider
\* is registered.
C29_EachProviderAtMostOnce ==
    op.name = "service.speak_text"
       => /\ Count(trace, OPENAI, "speak_text") <= 1
          /\ Count(trace, SYSTEM, "speak_text") <= 1

\* C27: CircuitBreaker.call opens the circuit after failure_threshold
\* consecutive failing calls: each failing call adds one to failure_count, a
\* returning call sets it to 0, and the state becomes OPEN exactly when the
\* count reaches failure_threshold.  While the circuit is open and no more
\* than timeout seconds have passed since the last failure, every call
\* raises CircuitBreakerOpenError without invoking the wrapped function and
\* without changing failure_count.
C27_OpensAndRejects ==
    [][op'.name = "call" =>
          IF breaker.state = OPEN
             /\ now - breaker.last_failure_time <= breaker.timeout
          THEN /\ raised'
               /\ trace' = <<Ev(BREAKER, "raise", "CircuitBreakerOpenError")>>
               /\ Count(trace', FUNC, "call") = 0
               /\ breaker' = breaker
          ELSE /\ Count(trace', FUNC, "call") = 1
               /\ ~Has(trace', BREAKER, "raise")
               /\ IF op'.a = "returns"
                  THEN /\ ~raised'
                       /\ breaker'.failure_count = 0
                       /\ breaker'.state = CLOSED
                  ELSE /\ raised'
                       /\ breaker'.failure_count = breaker.failure_count + 1
                       /\ breaker'.state = OPEN
                             <=> breaker'.failure_count >= breaker.failure_threshold
                       /\ breaker.state = CLOSED /\ breaker'.state = OPEN
                             => breaker'.failure_count = breaker.failure_threshold]_vars

C27_Witness ==
    /\ op.name = "call"
    /\ raised
    /\ trace = <<Ev(BREAKER, "raise", "CircuitBreakerOpenError")>>
    /\ breaker.state = OPEN
    /\ breaker.failure_threshold = 2
    /\ breaker.failure_count = 2
    /\ now - breaker.last_failure_time = breaker.timeout
    /\ breaker.timeout > 0

BreakerConsistent(b) ==
    /\ b.state = OPEN => b.failure_count >= b.failure_threshold
    /\ b.state = CLOSED => b.failure_count < b.failure_threshold
    /\ b.state # HALF_OPEN

\* C30: for failure_threshold >= 1, after every completed call the state and
\* the counter agree: OPEN implies failure_count >= failure_threshold,
\* CLOSED implies failure_count < failure_threshold, and the state is not
\* HALF_OPEN; a failing trial call made once the timeout has passed puts the
\* breaker back to OPEN with last_failure_time set to the time of that
\* failure.
C30_StateMatchesCounter ==
    [][(op'.name = "call" /\ breaker.failure_threshold >= 1) =>
          /\ BreakerConsistent(breaker')
          /\ (/\ breaker.state = OPEN
              /\ TimedOut(breaker, now)
              /\ op'.a = "raises")
             => /\ Has(trace', BREAKER, "log")
                /\ Count(trace', FUNC, "call") = 1
                /\ raised'
                /\ breaker'.state = OPEN
                /\ breaker'.last_failure_time = now'
                /\ breaker'.failure_count = breaker.failure_count + 1]_vars

C30_Witness ==
    /\ op = Op("call", "raises", "1")
    /\ raised
    /\ Has(trace, BREAKER, "log")
    /\ Has(trace, FUNC, "raise")
    /\ breaker.state = OPEN
    /\ breaker.last_failure_time = now
    /\ breaker.failure_count = breaker.failure_threshold + 1

\* C25: mark_article_as_read is idempotent and reports success on repeats: a
\* call for an article that is already marked read returns True and leaves
\* the read count and the set of read articles as they were.
C25_RepeatedMarkReturnsTrue ==
    [][(/\ op'.name = "mark_article_as_read"
        /\ op'.b = "ok"
        /\ \E r \in db.read_articles : ToString(r.article_id) = op'.a)
       => /\ ret' = TRUE
          /\ GetReadCount(db') = GetReadCount(db)
          /\ db'.read_articles = db.read_articles]_vars

\* C26: once mark_article_as_read(id) has returned True, id is a read
\* article for good: no mark removes a row of read_articles, every
\* get_unread_articles returns only articles that are not read (and have a
\* summary), within its limit and newest first, and get_unread_count counts
\* exactly those.  A mark that returns True was of an article not read
\* before and raises get_read_count by exactly one, and a mark of an unread
\* article that meets no database error returns True.
C26_ReadStaysRead ==
    [][/\ db.read_articles \subseteq db'.read_articles
       /\ op'.name = "mark_article_as_read" =>
             LET was_read == \E r \in db.read_articles :
                                 ToString(r.article_id) = op'.a
             IN /\ ret' = TRUE
                      => /\ ~was_read
                         /\ \E r \in db'.read_articles :
                               ToString(r.article_id) = op'.a
                         /\ GetReadCount(db') = GetReadCount(db) + 1
                /\ (op'.b = "ok" /\ ~was_read) => ret' = TRUE
       /\ op'.name = "get_unread_articles" =>
             /\ db' = db
             /\ \A i \in 1..Len(ret') :
                   /\ ~IsArticleRead(db, ret'[i])
                   /\ db.articles[ret'[i]].summary = "text"
       /\ op'.name = "get_unread_count" =>
             /\ db' = db
             /\ ret' = Cardinality({a \in ArticleIds :
                                      /\ ~IsArticleRead(db, a)
                                      /\ db.articles[a].summary = "text"})
       /\ op'.name = "get_read_count" =>
             /\ db' = db
             /\ ret' = Cardinality(db.read_articles)]_vars

C26_Witness ==
    /\ op.name = "get_unread_articles"
    /\ Len(ret) = 1
    /\ \E a \in ArticleIds :
          /\ a # ret[1]
          /\ db.articles[a].summary = "text"
          /\ db.articles[a].published > db.articles[ret[1]].published
          /\ [article_id |-> a, read_at |-> 1] \in db.read_articles

\* Payloads some put has written completely
CompletePayloads == SharedPayloads \cup {OldPayload}

\* C24: with two provider instances on one cache directory every
\* interleaving of put, size-based eviction and get degrades at worst to a
\* cache miss: a get whose file another instance deletes, also between the
\* existence check and the stat, reports absent and speak_text goes on to
\* synthesize, and a get never yields a payload other than one some put for
\* the key has written completely.
C24_DegradesToCacheMiss ==
    \A i \in Instances :
       /\ instances[i].got # "raised"
       /\ (instances[i].got = "absent" /\ instances[i].pc \notin {"open"})
             => instances[i].api
       /\ instances[i].got = "hit" => instances[i].seen \in CompletePayloads

=============================================================================
